---- MODULE Spec2Model ----
(***************************************************************************)
(* GPT repair tools of go-code-and-bin.                                    *)
(*                                                                         *)
(*   v1  replace_main_gpt_header_with_backup_gpt_header.go                 *)
(*   v2  replace_main_gpt_header_with_backup_gpt_header_v2_less_verbose_   *)
(*       with_output_info.go                                               *)
(*                                                                         *)
(* Each tool is one sequential main(); the model follows it step by step.  *)
(*                                                                         *)
(* Representation.  The device is a byte array.  It is held in blocks of   *)
(* 128 bytes (four per sector); a block is the tuple of the fifteen byte   *)
(* groups 0..8, 8..12, 12..16, 16..20, 20..24, 24..32, 32..40, 40..48,     *)
(* 48..56, 56..72, 72..80, 80..84, 84..88, 88..92, 92..128, each group     *)
(* being the little-endian value of its bytes.  These are the field        *)
(* boundaries of GPTHeader; the boundaries of GPTPartition (0, 16, 32, 40, *)
(* 48, 56, 128) are among them, so one block decodes either way, as the    *)
(* same bytes do in the programs.  All-zero blocks are not stored.         *)
(*                                                                         *)
(* uint64 is WordBits wide instead of 64, int64 is its two's complement    *)
(* reading; byte offsets (LBA * 512) are not wrapped.  crc32.ChecksumIEEE  *)
(* is a 30-bit rolling checksum over the same byte groups.                 *)
(***************************************************************************)
EXTENDS Integers, Sequences, FiniteSets, TLC

\* ---------------------------------------------------------------- bounds
WordBits == 12       \* width of the modelled uint64
MaxUsed == 3         \* leading table slots that carry arbitrary entries
DiskSectors == 100   \* size of the device after it was resized
ShrunkSectors == 72  \* size of a device that was shrunk below its partitions

\* ------------------------------------------------------- program constants
SECTOR_SIZE == 512
PARTITION_ENTRY_COUNT == 128
PARTITION_ENTRY_SIZE == 128
GPT_SIGNATURE == 1
HeaderBytes == 92
BlockBytes == 128

U64 == 2 ^ WordBits

\* uint64 arithmetic
Wrap(x) == x % U64

\* int64(u) for a uint64 u
Int64(u) == IF u >= U64 \div 2 THEN u - U64 ELSE u

Max(a, b) == IF a >= b THEN a ELSE b

\* byte offset at which each group of a block ends
GroupEnd == <<8, 12, 16, 20, 24, 32, 40, 48, 56, 72, 80, 84, 88, 92, 128>>
NGroups == Len(GroupEnd)
ZeroBlock == [g \in 1..NGroups |-> 0]

\* number of whole 128-byte blocks in n bytes
BlocksIn(n) == n \div BlockBytes

\* --------------------------------------------------------------- checksum
crcStep(h, x) ==
    <<(h[1] * 257 + x + 1) % 32749, (h[2] * 263 + x + 1) % 32719>>

\* (h[1] is never negative; reading it here evaluates the register at every
\* step instead of all at once at the end)
RECURSIVE crcFold(_, _, _)
crcFold(s, S, h) ==
    IF S = {} \/ h[1] < 0 THEN h[1] * 32768 + h[2]
    ELSE LET i == CHOOSE k \in S : \A j \in S : k <= j
         IN  crcFold(s, S \ {i}, crcStep(crcStep(h, i), s[i]))

\* crc32.ChecksumIEEE over a sequence of byte groups: a function of the
\* length and of every non-zero group with its position.
ChecksumIEEE(s) ==
    crcFold(s, {i \in 1..Len(s) : s[i] # 0}, <<Len(s) % 32749, Len(s) % 32719>>)

\* the byte groups of a sequence of blocks, in byte order
Flatten(bs) ==
    [i \in 1..(Len(bs) * NGroups) |->
        bs[((i - 1) \div NGroups) + 1][((i - 1) % NGroups) + 1]]

\* number of byte groups that make up the first n bytes of a block sequence
\* (n lies on a group boundary)
GroupsIn(n) ==
    (n \div BlockBytes) * NGroups
      + Cardinality({g \in 1..NGroups : GroupEnd[g] <= n % BlockBytes})

\* bytes[:n]
Prefix(bs, n) == SubSeq(Flatten(bs), 1, GroupsIn(n))

\* ------------------------------------------------------------ GPT codec
\* binary.Write(.., binary.LittleEndian, GPTHeader): 92 bytes, 14 groups
EncodeHeader(h) ==
    << h.Signature, h.Revision, h.HeaderSize, h.HeaderCRC32, h.Reserved,
       h.CurrentLBA, h.BackupLBA, h.FirstUsableLBA, h.LastUsableLBA,
       h.DiskGUID, h.PartitionTableLBA, h.NumPartitions,
       h.PartitionEntrySize, h.PartitionTableCRC >>

\* binary.Read(.., binary.LittleEndian, &GPTHeader) from the first 92 bytes
DecodeHeader(b) ==
    [ Signature |-> b[1], Revision |-> b[2], HeaderSize |-> b[3],
      HeaderCRC32 |-> b[4], Reserved |-> b[5], CurrentLBA |-> b[6],
      BackupLBA |-> b[7], FirstUsableLBA |-> b[8], LastUsableLBA |-> b[9],
      DiskGUID |-> b[10], PartitionTableLBA |-> b[11],
      NumPartitions |-> b[12], PartitionEntrySize |-> b[13],
      PartitionTableCRC |-> b[14] ]

ZeroHeader == DecodeHeader(ZeroBlock)

\* binary.Read(.., binary.LittleEndian, &GPTPartition) from 128 bytes
DecodeEntry(b) ==
    [ TypeGUID |-> <<b[1], b[2], b[3]>>,
      PartitionGUID |-> <<b[4], b[5], b[6]>>,
      StartLBA |-> b[7], EndLBA |-> b[8], Attributes |-> b[9],
      Name |-> <<b[10], b[11], b[12], b[13], b[14], b[15]>> ]

\* binary.Write(.., binary.LittleEndian, &GPTPartition): 128 bytes
EncodeEntry(e) ==
    << e.TypeGUID[1], e.TypeGUID[2], e.TypeGUID[3],
       e.PartitionGUID[1], e.PartitionGUID[2], e.PartitionGUID[3],
       e.StartLBA, e.EndLBA, e.Attributes,
       e.Name[1], e.Name[2], e.Name[3], e.Name[4], e.Name[5], e.Name[6] >>

isZero(b) == \A k \in 1..Len(b) : b[k] = 0

\* the first n bytes of block new laid over block old (n on a group boundary)
OverlayPrefix(new, old, n) ==
    [g \in 1..NGroups |-> IF GroupEnd[g] <= n THEN new[g] ELSE old[g]]

\* ------------------------------------------------------------- the device
\* d.size: length in bytes; d.data: the non-zero blocks by block index
BlockAt(d, i) == IF i \in DOMAIN d.data THEN d.data[i] ELSE ZeroBlock

\* f.ReadAt / f.Read succeed only when the whole range lies in the file
CanRead(d, off, n) == off >= 0 /\ off + n <= d.size

ReadBlocks(d, off, n) ==
    [b \in 1..BlocksIn(n) |-> BlockAt(d, BlocksIn(off) + b - 1)]

\* a write of the blocks bs at byte offset off (off >= 0)
WriteBlocks(d, off, bs) ==
    LET first == BlocksIn(off)
        hit   == first..(first + Len(bs) - 1)
        new(i) == IF i \in hit THEN bs[i - first + 1] ELSE BlockAt(d, i)
    IN  [ size |-> IF Len(bs) = 0 THEN d.size
                   ELSE Max(d.size, off + Len(bs) * BlockBytes),
          data |-> [i \in {j \in (DOMAIN d.data) \cup hit : new(j) # ZeroBlock}
                       |-> new(i)] ]

\* a write of bs[:n] at byte offset off (off >= 0, n on a group boundary):
\* the whole blocks, then the leading groups of the next block
WriteAt(d, off, bs, n) ==
    LET whole == BlocksIn(n)
        rest  == n % BlockBytes
        last  == BlocksIn(off) + whole
        full  == WriteBlocks(d, off, SubSeq(bs, 1, whole))
        part  == WriteBlocks(full, off + whole * BlockBytes,
                     <<OverlayPrefix(bs[whole + 1], BlockAt(d, last), rest)>>)
    IN  IF rest = 0 THEN full
        ELSE [part EXCEPT !.size = Max(d.size, off + n)]

\* what a failed write can leave behind: nothing written (always so at a
\* negative offset), or a short write of the first half of the blocks
ShortWrites(d, off, bs, n) ==
    IF off < 0 THEN {d}
    ELSE {d} \cup {WriteAt(d, off, bs, (BlocksIn(n) \div 2) * BlockBytes)}

\* the 92 encoded header bytes as a buffer of max(92, n) bytes, zero padded
PadHeader(groups, n) ==
    [b \in 1..Max(1, (n + BlockBytes - 1) \div BlockBytes) |->
        IF b = 1 THEN OverlayPrefix(groups \o <<0>>, ZeroBlock, HeaderBytes)
        ELSE ZeroBlock]

\* for i := 16; i < 20; i++ { hdrBytes[i] = 0 }
ZeroCRCField(bs) == [bs EXCEPT ![1][4] = 0]

\* binary.LittleEndian.PutUint32(hdrBytes[16:20], crc)
PutCRCField(bs, crc) == [bs EXCEPT ![1][4] = crc]

\* ------------------------------------------------------------------ state
VARIABLES
    prog,          \* which tool runs: "v1" or "v2"
    pc,            \* position in main()
    disk,          \* the file f
    disk0,         \* the file as it was when the tool started
    wlog,          \* the metadata writes that completed, in order
    tried,         \* the metadata writes that were attempted, in order
    report,        \* the final success line has been printed
    fatal,         \* the log.Fatalf message the run ended with, or ""
    totalSectors,  \* v1
    primary,       \* v1
    tableBuf,      \* v1
    tableCRC,      \* v1
    backup,        \* v1
    lastSector,    \* v2
    gptHeader,     \* v2
    partitions,    \* v2
    backupHeader   \* v2

v1vars == <<totalSectors, primary, tableBuf, tableCRC, backup>>
v2vars == <<lastSector, gptHeader, partitions, backupHeader>>
iovars == <<disk, wlog, tried, report>>
vars == <<prog, pc, disk, disk0, wlog, tried, report, fatal, v1vars, v2vars>>

\* log.Fatalf(msg): the process exits
Fatalf(msg) == pc' = "exit" /\ fatal' = msg

\* one completed metadata write
Wrote(what, off, n) == [what |-> what, off |-> off, len |-> n]

\* -------------------------------------------------------------------- v1
\* (tableBytes + SECTOR_SIZE - 1) / SECTOR_SIZE
partSectors(tableBytes) == (tableBytes + SECTOR_SIZE - 1) \div SECTOR_SIZE

v1_tableBytes == primary.NumPartitions * primary.PartitionEntrySize
v1_primTableOff == Int64(primary.PartitionTableLBA) * SECTOR_SIZE
v1_backupHdrLBA == Wrap(totalSectors - 1)
v1_backupTableLBA == Wrap(v1_backupHdrLBA - partSectors(v1_tableBytes))

\* fileSize%SECTOR_SIZE check and totalSectors
V1_Stat ==
    /\ prog = "v1" /\ pc = "stat"
    /\ IF disk.size % SECTOR_SIZE # 0
       THEN Fatalf("file size not a multiple of 512") /\ UNCHANGED totalSectors
       ELSE /\ totalSectors' = Wrap(disk.size \div SECTOR_SIZE)
            /\ pc' = "read header" /\ UNCHANGED fatal
    /\ UNCHANGED <<prog, disk0, iovars, primary, tableBuf, tableCRC, backup, v2vars>>

\* 1) read and parse the primary header at LBA 1
V1_ReadHeader ==
    /\ prog = "v1" /\ pc = "read header"
    /\ IF ~CanRead(disk, SECTOR_SIZE, SECTOR_SIZE)
       THEN Fatalf("read primary header") /\ UNCHANGED primary
       ELSE /\ primary' = DecodeHeader(ReadBlocks(disk, SECTOR_SIZE, SECTOR_SIZE)[1])
            /\ pc' = "read table" /\ UNCHANGED fatal
    /\ UNCHANGED <<prog, disk0, iovars, totalSectors, tableBuf, tableCRC, backup, v2vars>>

\* 2) read the primary partition array
V1_ReadTable ==
    /\ prog = "v1" /\ pc = "read table"
    /\ IF v1_primTableOff + v1_tableBytes > disk.size
       THEN Fatalf("primary partition table beyond file size") /\ UNCHANGED tableBuf
       ELSE IF ~CanRead(disk, v1_primTableOff, v1_tableBytes)
       THEN Fatalf("read primary entries") /\ UNCHANGED tableBuf
       ELSE /\ tableBuf' = ReadBlocks(disk, v1_primTableOff, v1_tableBytes)
            /\ pc' = "relocate" /\ UNCHANGED fatal
    /\ UNCHANGED <<prog, disk0, iovars, totalSectors, primary, tableCRC, backup, v2vars>>

\* size := oldEnd - oldStart + 1
v1_size(oldStart, oldEnd) == Wrap(oldEnd - oldStart + 1)

\* mutant: the end of the relocated range taken one sector too far
v1_newEnd_OffByOne(newStart, size) == Wrap(newStart + size)

\* newEnd := newStart + size - 1
v1_newEnd(newStart, size) == Wrap(newStart + size - 1)

\* if oldEnd == 0 || oldStart == 0 { continue }
v1_skip(oldStart, oldEnd) == oldEnd = 0 \/ oldStart = 0

\* the loop of step 3 from entry i on, with curStart as it stands; the
\* iterations that hit `continue` are passed over in one go
RECURSIVE v1_relocate(_, _, _, _, _)
v1_relocate(buf, i, numEntries, entrySize, curStart) ==
    LET blockOf(j) == BlocksIn(j * entrySize) + 1
        live == {j \in i..(numEntries - 1) :
                    ~v1_skip(buf[blockOf(j)][7], buf[blockOf(j)][8])}
    IN  IF live = {} THEN buf
        ELSE LET k        == CHOOSE j \in live : \A l \in live : j <= l
                 b        == blockOf(k)
                 newStart == curStart
                 newEnd   == v1_newEnd(newStart, v1_size(buf[b][7], buf[b][8]))
             IN  v1_relocate([buf EXCEPT ![b][7] = newStart, ![b][8] = newEnd],
                             k + 1, numEntries, entrySize, Wrap(newEnd + 1))

\* 3) re-align partitions immediately after FirstUsableLBA
V1_Relocate ==
    /\ prog = "v1" /\ pc = "relocate"
    /\ tableBuf' = v1_relocate(tableBuf, 0, primary.NumPartitions,
                               primary.PartitionEntrySize, primary.FirstUsableLBA)
    /\ pc' = "write table"
    /\ UNCHANGED <<prog, disk0, iovars, fatal, totalSectors, primary, tableCRC, backup, v2vars>>

\* primary.LastUsableLBA = backupHdrLBA - partSectors - 1
v1_lastUsable(backupHdrLBA, sectors) == Wrap(backupHdrLBA - sectors - 1)

\* 4) write the partition array back, 5) recompute the header fields
V1_WriteTable ==
    /\ prog = "v1" /\ pc = "write table"
    /\ tried' = Append(tried, "primary table")
    /\ \/ /\ v1_primTableOff >= 0
          /\ disk' = WriteAt(disk, v1_primTableOff, tableBuf, v1_tableBytes)
          /\ wlog' = Append(wlog, Wrote("primary table", v1_primTableOff, v1_tableBytes))
          /\ tableCRC' = ChecksumIEEE(Flatten(tableBuf))
          /\ primary' = [primary EXCEPT
                 !.PartitionTableCRC = ChecksumIEEE(Flatten(tableBuf)),
                 !.BackupLBA = v1_backupHdrLBA,
                 !.LastUsableLBA = v1_lastUsable(v1_backupHdrLBA, partSectors(v1_tableBytes))]
          /\ pc' = "write header" /\ UNCHANGED fatal
       \/ /\ disk' \in ShortWrites(disk, v1_primTableOff, tableBuf, v1_tableBytes)
          /\ Fatalf("write primary entries")
          /\ UNCHANGED <<wlog, tableCRC, primary>>
    /\ UNCHANGED <<prog, disk0, report, totalSectors, tableBuf, backup, v2vars>>

\* 6) serialize and CRC a header: the buffer that is written
v1_hdrBytes(h) ==
    LET padded == ZeroCRCField(PadHeader(EncodeHeader(h), h.HeaderSize))
    IN  PutCRCField(padded, ChecksumIEEE(Prefix(padded, h.HeaderSize)))

\* 7) write the corrected primary header back to LBA 1
V1_WriteHeader ==
    /\ prog = "v1" /\ pc = "write header"
    /\ tried' = Append(tried, "primary header")
    /\ \/ /\ disk' = WriteAt(disk, SECTOR_SIZE, v1_hdrBytes(primary), primary.HeaderSize)
          /\ wlog' = Append(wlog, Wrote("primary header", SECTOR_SIZE, primary.HeaderSize))
          /\ pc' = "write backup table" /\ UNCHANGED fatal
       \/ /\ disk' \in ShortWrites(disk, SECTOR_SIZE, v1_hdrBytes(primary), primary.HeaderSize)
          /\ Fatalf("write primary header")
          /\ UNCHANGED wlog
    /\ UNCHANGED <<prog, disk0, report, v1vars, v2vars>>

v1_backupTableOff == Int64(v1_backupTableLBA) * SECTOR_SIZE

\* mutant: the error of the backup table write is not checked
V1_WriteBackupTable_IgnoresError ==
    /\ prog = "v1" /\ pc = "write backup table"
    /\ tried' = Append(tried, "backup table")
    /\ \/ /\ v1_backupTableOff >= 0
          /\ disk' = WriteAt(disk, v1_backupTableOff, tableBuf, v1_tableBytes)
          /\ wlog' = Append(wlog, Wrote("backup table", v1_backupTableOff, v1_tableBytes))
       \/ /\ disk' \in ShortWrites(disk, v1_backupTableOff, tableBuf, v1_tableBytes)
          /\ UNCHANGED wlog
    /\ pc' = "write backup header"
    /\ UNCHANGED <<prog, disk0, report, fatal, v1vars, v2vars>>

\* 8) write the backup partition array
V1_WriteBackupTable ==
    /\ prog = "v1" /\ pc = "write backup table"
    /\ tried' = Append(tried, "backup table")
    /\ \/ /\ v1_backupTableOff >= 0
          /\ disk' = WriteAt(disk, v1_backupTableOff, tableBuf, v1_tableBytes)
          /\ wlog' = Append(wlog, Wrote("backup table", v1_backupTableOff, v1_tableBytes))
          /\ pc' = "write backup header" /\ UNCHANGED fatal
       \/ /\ disk' \in ShortWrites(disk, v1_backupTableOff, tableBuf, v1_tableBytes)
          /\ Fatalf("write backup entries")
          /\ UNCHANGED wlog
    /\ UNCHANGED <<prog, disk0, report, v1vars, v2vars>>

\* mutant: the backup header's last usable sector recomputed one too high
v1_backup_OwnLastUsable(p, backupHdrLBA, backupTableLBA, crc) ==
    [p EXCEPT !.CurrentLBA = backupHdrLBA,
              !.BackupLBA = 1,
              !.PartitionTableLBA = backupTableLBA,
              !.PartitionTableCRC = crc,
              !.LastUsableLBA = backupTableLBA]

\* backup := primary and its four overrides
v1_backup(p, backupHdrLBA, backupTableLBA, crc) ==
    [p EXCEPT !.CurrentLBA = backupHdrLBA,
              !.BackupLBA = 1,
              !.PartitionTableLBA = backupTableLBA,
              !.PartitionTableCRC = crc]

v1_backupHdrOff == Int64(v1_backupHdrLBA) * SECTOR_SIZE

\* build, serialize and write the backup header to the last sector; report
V1_WriteBackupHeader ==
    /\ prog = "v1" /\ pc = "write backup header"
    /\ backup' = v1_backup(primary, v1_backupHdrLBA, v1_backupTableLBA, tableCRC)
    /\ tried' = Append(tried, "backup header")
    /\ \/ /\ v1_backupHdrOff >= 0
          /\ disk' = WriteAt(disk, v1_backupHdrOff, v1_hdrBytes(backup'), backup'.HeaderSize)
          /\ wlog' = Append(wlog, Wrote("backup header", v1_backupHdrOff, backup'.HeaderSize))
          /\ report' = TRUE
          /\ pc' = "done" /\ UNCHANGED fatal
       \/ /\ disk' \in ShortWrites(disk, v1_backupHdrOff, v1_hdrBytes(backup'), backup'.HeaderSize)
          /\ Fatalf("write backup header")
          /\ UNCHANGED <<wlog, report>>
    /\ UNCHANGED <<prog, disk0, totalSectors, primary, tableBuf, tableCRC, v2vars>>

\* -------------------------------------------------------------------- v2
\* lastSector := uint64(fileSize)/SECTOR_SIZE - 1
V2_Stat ==
    /\ prog = "v2" /\ pc = "stat"
    /\ lastSector' = Wrap(disk.size \div SECTOR_SIZE - 1)
    /\ pc' = "read header"
    /\ UNCHANGED <<prog, disk0, iovars, fatal, v1vars, gptHeader, partitions, backupHeader>>

\* gptHeader.LastUsableLBA = lastSector - 33
v2_lastUsable(last) == Wrap(last - 33)

\* read the GPT header, verify the signature, update it for the file size
V2_ReadHeader ==
    /\ prog = "v2" /\ pc = "read header"
    /\ LET h == DecodeHeader(ReadBlocks(disk, SECTOR_SIZE, BlockBytes)[1])
       IN  IF ~CanRead(disk, SECTOR_SIZE, HeaderBytes)
           THEN Fatalf("Error reading GPT header") /\ UNCHANGED gptHeader
           ELSE IF h.Signature # GPT_SIGNATURE
           THEN Fatalf("Invalid GPT signature") /\ gptHeader' = h
           ELSE /\ gptHeader' = [h EXCEPT !.LastUsableLBA = v2_lastUsable(lastSector),
                                          !.BackupLBA = lastSector]
                /\ pc' = "read table" /\ UNCHANGED fatal
    /\ UNCHANGED <<prog, disk0, iovars, v1vars, lastSector, partitions, backupHeader>>

v2_tableBytes == PARTITION_ENTRY_COUNT * PARTITION_ENTRY_SIZE
v2_primTableOff == Int64(gptHeader.PartitionTableLBA) * SECTOR_SIZE

\* read all partition entries
V2_ReadTable ==
    /\ prog = "v2" /\ pc = "read table"
    /\ IF v2_primTableOff < 0
       THEN Fatalf("Error seeking to partition table") /\ UNCHANGED partitions
       ELSE IF ~CanRead(disk, v2_primTableOff, v2_tableBytes)
       THEN Fatalf("Error reading partition") /\ UNCHANGED partitions
       ELSE /\ partitions' = [i \in 1..PARTITION_ENTRY_COUNT |->
                                DecodeEntry(ReadBlocks(disk, v2_primTableOff, v2_tableBytes)[i])]
            /\ pc' = "relocate" /\ UNCHANGED fatal
    /\ UNCHANGED <<prog, disk0, iovars, v1vars, lastSector, gptHeader, backupHeader>>

\* partitionSize := partitions[i].EndLBA - partitions[i].StartLBA + 1
v2_partitionSize(e) == Wrap(e.EndLBA - e.StartLBA + 1)

\* partitions[i].EndLBA = nextFreeSector + partitionSize - 1
v2_newEnd(nextFreeSector, partitionSize) == Wrap(nextFreeSector + partitionSize - 1)

\* if isZero(partitions[i].TypeGUID[:]) { continue }
v2_skip(e) == isZero(e.TypeGUID)

\* the relocation loop from entry i (1-based here) on; the iterations that
\* hit `continue` are passed over in one go
RECURSIVE v2_relocate(_, _, _)
v2_relocate(ps, i, nextFreeSector) ==
    LET live == {j \in i..PARTITION_ENTRY_COUNT : ~v2_skip(ps[j])}
    IN  IF live = {} THEN ps
        ELSE LET k      == CHOOSE j \in live : \A l \in live : j <= l
                 newEnd == v2_newEnd(nextFreeSector, v2_partitionSize(ps[k]))
             IN  v2_relocate([ps EXCEPT ![k].StartLBA = nextFreeSector,
                                        ![k].EndLBA = newEnd],
                             k + 1, Wrap(newEnd + 1))

\* partitionTableBytes: every entry serialized into its 128 bytes
v2_tableBytesOf(ps) == [i \in 1..PARTITION_ENTRY_COUNT |-> EncodeEntry(ps[i])]

\* HeaderCRC32 = 0; headerBytes := make([]byte, HeaderSize); serialize into
\* it through byteBuffer (copy stops at the end of the buffer); checksum
v2_headerCRC(h) ==
    ChecksumIEEE(Prefix(PadHeader(EncodeHeader([h EXCEPT !.HeaderCRC32 = 0]),
                                  h.HeaderSize), h.HeaderSize))

\* gptHeader.PartitionTableCRC over the serialized entries, then
\* gptHeader.HeaderCRC32
v2_withCRCs(h, ps) ==
    LET withTable == [h EXCEPT !.PartitionTableCRC =
                         ChecksumIEEE(Flatten(v2_tableBytesOf(ps)))]
    IN  [withTable EXCEPT !.HeaderCRC32 = v2_headerCRC(withTable)]

\* relocate from sector 34, recompute the table CRC and the header CRC
V2_Relocate ==
    /\ prog = "v2" /\ pc = "relocate"
    /\ LET relocated == v2_relocate(partitions, 1, 34)
       IN  /\ partitions' = relocated
           /\ gptHeader' = v2_withCRCs(gptHeader, relocated)
    /\ pc' = "write header"
    /\ UNCHANGED <<prog, disk0, iovars, fatal, v1vars, lastSector, backupHeader>>

\* binary.Write(f, .., &header): the 92 encoded bytes
v2_headerImage(h) == PadHeader(EncodeHeader(h), HeaderBytes)

\* write the updated header to the primary location
V2_WriteHeader ==
    /\ prog = "v2" /\ pc = "write header"
    /\ tried' = Append(tried, "primary header")
    /\ \/ /\ disk' = WriteAt(disk, SECTOR_SIZE, v2_headerImage(gptHeader), HeaderBytes)
          /\ wlog' = Append(wlog, Wrote("primary header", SECTOR_SIZE, HeaderBytes))
          /\ pc' = "write table" /\ UNCHANGED fatal
       \/ /\ disk' \in ShortWrites(disk, SECTOR_SIZE, v2_headerImage(gptHeader), HeaderBytes)
          /\ Fatalf("Error writing primary header")
          /\ UNCHANGED wlog
    /\ UNCHANGED <<prog, disk0, report, v1vars, v2vars>>

\* mutant: the backup table is written right after the primary table, ahead
\* of the backup header
V2_WriteTable_ThenBackupTable ==
    /\ prog = "v2" /\ pc = "write table"
    /\ tried' = Append(tried, "primary table")
    /\ \/ /\ v2_primTableOff >= 0
          /\ disk' = WriteAt(disk, v2_primTableOff, v2_tableBytesOf(partitions), v2_tableBytes)
          /\ wlog' = Append(wlog, Wrote("primary table", v2_primTableOff, v2_tableBytes))
          /\ pc' = "write backup table" /\ UNCHANGED fatal
       \/ /\ disk' \in ShortWrites(disk, v2_primTableOff, v2_tableBytesOf(partitions), v2_tableBytes)
          /\ Fatalf("Error writing partition")
          /\ UNCHANGED wlog
    /\ UNCHANGED <<prog, disk0, report, v1vars, v2vars>>

\* write the updated partition table to the primary location
V2_WriteTable ==
    /\ prog = "v2" /\ pc = "write table"
    /\ tried' = Append(tried, "primary table")
    /\ \/ /\ v2_primTableOff >= 0
          /\ disk' = WriteAt(disk, v2_primTableOff, v2_tableBytesOf(partitions), v2_tableBytes)
          /\ wlog' = Append(wlog, Wrote("primary table", v2_primTableOff, v2_tableBytes))
          /\ pc' = "write backup header" /\ UNCHANGED fatal
       \/ /\ disk' \in ShortWrites(disk, v2_primTableOff, v2_tableBytesOf(partitions), v2_tableBytes)
          /\ Fatalf("Error writing partition")
          /\ UNCHANGED wlog
    /\ UNCHANGED <<prog, disk0, report, v1vars, v2vars>>

\* backupHeader := gptHeader with CurrentLBA and BackupLBA swapped and the
\* partition table 33 sectors before the backup header; then its CRC
v2_backupHeader(h) ==
    LET swapped == [h EXCEPT !.CurrentLBA = h.BackupLBA,
                             !.BackupLBA = h.CurrentLBA,
                             !.PartitionTableLBA = Wrap(h.BackupLBA - 33)]
    IN  [swapped EXCEPT !.HeaderCRC32 = v2_headerCRC(swapped)]

v2_backupHdrOff == Int64(backupHeader'.CurrentLBA) * SECTOR_SIZE

\* create the backup header and write it
V2_WriteBackupHeader ==
    /\ prog = "v2" /\ pc = "write backup header"
    /\ backupHeader' = v2_backupHeader(gptHeader)
    /\ tried' = Append(tried, "backup header")
    /\ \/ /\ v2_backupHdrOff >= 0
          /\ disk' = WriteAt(disk, v2_backupHdrOff, v2_headerImage(backupHeader'), HeaderBytes)
          /\ wlog' = Append(wlog, Wrote("backup header", v2_backupHdrOff, HeaderBytes))
          /\ pc' = "write backup table" /\ UNCHANGED fatal
       \/ /\ disk' \in ShortWrites(disk, v2_backupHdrOff, v2_headerImage(backupHeader'), HeaderBytes)
          /\ Fatalf("Error writing backup header")
          /\ UNCHANGED wlog
    /\ UNCHANGED <<prog, disk0, report, v1vars, lastSector, gptHeader, partitions>>

v2_backupTableOff == Int64(backupHeader.PartitionTableLBA) * SECTOR_SIZE

\* write the backup partition table; report
V2_WriteBackupTable ==
    /\ prog = "v2" /\ pc = "write backup table"
    /\ tried' = Append(tried, "backup table")
    /\ \/ /\ v2_backupTableOff >= 0
          /\ disk' = WriteAt(disk, v2_backupTableOff, v2_tableBytesOf(partitions), v2_tableBytes)
          /\ wlog' = Append(wlog, Wrote("backup table", v2_backupTableOff, v2_tableBytes))
          /\ report' = TRUE
          /\ pc' = "done" /\ UNCHANGED fatal
       \/ /\ disk' \in ShortWrites(disk, v2_backupTableOff, v2_tableBytesOf(partitions), v2_tableBytes)
          /\ Fatalf("Error writing backup partition")
          /\ UNCHANGED <<wlog, report>>
    /\ UNCHANGED <<prog, disk0, v1vars, v2vars>>

\* ------------------------------------------------------- the input images
\* the primary header of a disk that had 2 * DiskSectors sectors before it
\* was resized: BackupLBA and LastUsableLBA are stale, both CRCs are stale
BaseHeader ==
    [ Signature |-> GPT_SIGNATURE, Revision |-> 1, HeaderSize |-> HeaderBytes,
      HeaderCRC32 |-> 77, Reserved |-> 0, CurrentLBA |-> 1,
      BackupLBA |-> 2 * DiskSectors - 1, FirstUsableLBA |-> 34,
      LastUsableLBA |-> 2 * DiskSectors - 34, DiskGUID |-> 5,
      PartitionTableLBA |-> 2, NumPartitions |-> PARTITION_ENTRY_COUNT,
      PartitionEntrySize |-> PARTITION_ENTRY_SIZE, PartitionTableCRC |-> 88 ]

\* the header as found, with one field off the conventional value
HeaderChoices ==
    { BaseHeader,
      [BaseHeader EXCEPT !.Signature = 2],
      [BaseHeader EXCEPT !.HeaderSize = SECTOR_SIZE],
      [BaseHeader EXCEPT !.CurrentLBA = 2 * DiskSectors - 1],
      [BaseHeader EXCEPT !.FirstUsableLBA = 40],
      [BaseHeader EXCEPT !.PartitionTableLBA = DiskSectors - 10],
      [BaseHeader EXCEPT !.NumPartitions = 4],
      [BaseHeader EXCEPT !.NumPartitions = 64, !.PartitionEntrySize = 256] }

\* <<type GUID, start LBA, end LBA>> of a table slot as found
PlainEntries ==
    { <<0, 0, 0>>,      \* unused slot
      <<1, 34, 36>>,    \* 3 sectors at the conventional base
      <<1, 37, 46>> }   \* 10 sectors

EntryChoices ==
    PlainEntries \cup
    { <<1, 5, 0>>,      \* typed, end LBA zero
      <<1, 0, 5>>,      \* typed, start LBA zero
      <<0, 40, 41>> }   \* type GUID zero, LBAs set

\* hdr: the header at sector 1; bytes: the file size; junk: the value of the
\* bytes after the header in sector 1 and of the last sector (0: all zero);
\* entries: what the leading table slots may hold
\* The last two are devices too small for a second copy of the table, with
\* the entry array declared at LBA 0: two sectors with a one-sector table,
\* and 33 sectors and a fraction with the 32-sector table.
Scenarios ==
    {[hdr |-> BaseHeader, bytes |-> n, junk |-> 0, entries |-> EntryChoices] :
        n \in {DiskSectors * SECTOR_SIZE, ShrunkSectors * SECTOR_SIZE,
               DiskSectors * SECTOR_SIZE + BlockBytes}}
    \cup {[hdr |-> h, bytes |-> DiskSectors * SECTOR_SIZE, junk |-> 0,
           entries |-> PlainEntries] : h \in HeaderChoices \ {BaseHeader}}
    \cup {[hdr |-> h, bytes |-> DiskSectors * SECTOR_SIZE, junk |-> 9,
           entries |-> PlainEntries] :
             h \in {BaseHeader, [BaseHeader EXCEPT !.HeaderSize = SECTOR_SIZE]}}
    \cup {[hdr |-> [BaseHeader EXCEPT !.PartitionTableLBA = 0, !.NumPartitions = 4],
           bytes |-> 2 * SECTOR_SIZE, junk |-> 0, entries |-> {<<0, 0, 0>>}],
          [hdr |-> [BaseHeader EXCEPT !.PartitionTableLBA = 0],
           bytes |-> 33 * SECTOR_SIZE + BlockBytes, junk |-> 0,
           entries |-> PlainEntries]}

\* the 128 bytes of slot k holding choice c: type GUID, unique GUID, LBAs,
\* attributes, name
EntryBlock(k, c) ==
    IF c = <<0, 0, 0>> THEN ZeroBlock
    ELSE <<c[1], 0, 0, 10 + k, 0, 0, c[2], c[3], 3, 20 + k, 0, 0, 0, 0, 0>>

\* a block whose bytes 92..128 are non-zero
JunkBlock(j) == [g \in 1..NGroups |-> IF g = NGroups THEN j ELSE 0]

\* the image: header at sector 1, entry array at sector 2 with the stride the
\* header declares, junk after the header and in the last sector
Image(sc, slots) ==
    LET stride == BlocksIn(sc.hdr.PartitionEntrySize)
        tbl    == BlocksIn(BaseHeader.PartitionTableLBA * SECTOR_SIZE)
        hb     == BlocksIn(SECTOR_SIZE)
        lastb  == BlocksIn((sc.bytes \div SECTOR_SIZE - 1) * SECTOR_SIZE)
        blk(i) == IF i = hb THEN EncodeHeader(sc.hdr) \o <<sc.junk>>
                  ELSE IF i \in (hb + 1)..(hb + 3) \/ i \in lastb..(lastb + 3)
                       THEN JunkBlock(sc.junk)
                  ELSE IF \E k \in 1..MaxUsed : i = tbl + (k - 1) * stride
                       THEN LET k == CHOOSE k \in 1..MaxUsed : i = tbl + (k - 1) * stride
                            IN  EntryBlock(k, slots[k])
                  ELSE ZeroBlock
    IN  [ size |-> sc.bytes,
          data |-> [i \in {j \in 0..(BlocksIn(sc.bytes) - 1) : blk(j) # ZeroBlock}
                       |-> blk(i)] ]

Init ==
    /\ prog \in {"v1", "v2"}
    /\ \E sc \in Scenarios :
       \E slots \in [1..MaxUsed -> sc.entries] :
          /\ disk = Image(sc, slots)
          /\ disk0 = disk
    /\ pc = "stat"
    /\ wlog = <<>> /\ tried = <<>> /\ report = FALSE /\ fatal = ""
    /\ totalSectors = 0 /\ primary = ZeroHeader /\ tableBuf = <<>>
    /\ tableCRC = 0 /\ backup = ZeroHeader
    /\ lastSector = 0 /\ gptHeader = ZeroHeader /\ partitions = <<>>
    /\ backupHeader = ZeroHeader

Next ==
    \/ V1_Stat \/ V1_ReadHeader \/ V1_ReadTable \/ V1_Relocate
    \/ V1_WriteTable \/ V1_WriteHeader \/ V1_WriteBackupTable
    \/ V1_WriteBackupHeader
    \/ V2_Stat \/ V2_ReadHeader \/ V2_ReadTable \/ V2_Relocate
    \/ V2_WriteHeader \/ V2_WriteTable \/ V2_WriteBackupHeader
    \/ V2_WriteBackupTable

Spec == Init /\ [][Next]_vars

\* ------------------------------------------------------------ observation
\* the run got past the relocation loop
Relocated ==
    pc \in {"write table", "write header", "write backup table",
            "write backup header", "done"} \/ tried # <<>>

\* the run ended with its success report
Succeeded == pc = "done"

\* the header in memory that the tool treats as the primary header
MemPrimary == IF prog = "v1" THEN primary ELSE gptHeader

\* number of entries the tool walks and the bytes between two of them
WalkCount == IF prog = "v1" THEN primary.NumPartitions ELSE PARTITION_ENTRY_COUNT
WalkStride == IF prog = "v1" THEN primary.PartitionEntrySize ELSE PARTITION_ENTRY_SIZE

\* entry i (from 0) of the table as the tool found it on the device
OldEntry(i) ==
    DecodeEntry(BlockAt(disk0, BlocksIn(Int64(MemPrimary.PartitionTableLBA) * SECTOR_SIZE
                                        + i * WalkStride)))

\* entry i (from 0) of the table in memory
NewEntry(i) ==
    IF prog = "v1" THEN DecodeEntry(tableBuf[BlocksIn(i * WalkStride) + 1])
    ELSE partitions[i + 1]

\* the headers as they lie on the device
DiskPrimary == DecodeHeader(BlockAt(disk, BlocksIn(SECTOR_SIZE)))
DiskBackup == DecodeHeader(BlockAt(disk, BlocksIn(DiskPrimary.BackupLBA * SECTOR_SIZE)))

\* entry i (from 0) of the table that the primary header on the device declares
DiskEntry(i) ==
    DecodeEntry(BlockAt(disk, BlocksIn(DiskPrimary.PartitionTableLBA * SECTOR_SIZE
                                       + i * DiskPrimary.PartitionEntrySize)))

\* section 4.3: a slot is empty when its type GUID is all-zero; a slot with a
\* zero start or end LBA is treated as empty as well
NonEmpty(e) == ~isZero(e.TypeGUID) /\ e.StartLBA # 0 /\ e.EndLBA # 0

\* ceil(num_partitions * partition_entry_size / 512)
table_sectors(h) ==
    (h.NumPartitions * h.PartitionEntrySize + SECTOR_SIZE - 1) \div SECTOR_SIZE

\* the completed write of the given item, if any
WritesOf(what) == {k \in 1..Len(wlog) : wlog[k].what = what}

\* ------------------------------------------------------------------ claims

\* C1: after a successful run the primary header's backup_lba is
\* total_sectors - 1, the backup table is written at backup_lba -
\* table_sectors, and last_usable_lba is one below that, in every variant.
C1_BackupLayout ==
    Succeeded =>
        LET p == DiskPrimary
            backup_table_lba == p.BackupLBA - table_sectors(p)
        IN  /\ p.BackupLBA = disk0.size \div SECTOR_SIZE - 1
            /\ \A k \in WritesOf("backup table") :
                   wlog[k].off = backup_table_lba * SECTOR_SIZE
            /\ p.LastUsableLBA = backup_table_lba - 1

\* C2: relocation preserves size: once the loop has run, every entry has
\* new_end - new_start equal to old_end - old_start (uint64 subtraction), in
\* both variants.
C2_RelocationPreservesSize ==
    Relocated =>
        \A i \in 0..(WalkCount - 1) :
            Wrap(NewEntry(i).EndLBA - NewEntry(i).StartLBA)
                = Wrap(OldEntry(i).EndLBA - OldEntry(i).StartLBA)

\* C2 witness: the loop has run and moved a non-empty entry
C2_Witness ==
    /\ Relocated
    /\ \E i \in 0..(WalkCount - 1) :
          NonEmpty(OldEntry(i)) /\ NewEntry(i).StartLBA # OldEntry(i).StartLBA

\* C3: relocation preserves order and disjointness: for non-empty entries
\* i < j (by slot index) entry i ends before entry j begins after relocation.
C3_OrderAndDisjoint ==
    Relocated =>
        \A i \in 0..(WalkCount - 1) :
            NonEmpty(OldEntry(i)) =>
                \A j \in (i + 1)..(WalkCount - 1) :
                    NonEmpty(OldEntry(j)) =>
                        NewEntry(i).EndLBA < NewEntry(j).StartLBA

\* C4: after a successful run every non-empty entry on the device has
\* start <= end and lies within [first_usable_lba, last_usable_lba] of the
\* primary header on the device.
C4_EntriesWithinUsable ==
    Succeeded =>
        \A i \in 0..(DiskPrimary.NumPartitions - 1) :
            NonEmpty(DiskEntry(i)) =>
                /\ DiskEntry(i).StartLBA <= DiskEntry(i).EndLBA
                /\ DiskPrimary.FirstUsableLBA <= DiskEntry(i).StartLBA
                /\ DiskEntry(i).EndLBA <= DiskPrimary.LastUsableLBA

\* C5: after a successful run the two headers on the device point at each
\* other.
C5_HeadersPointAtEachOther ==
    Succeeded =>
        /\ DiskPrimary.BackupLBA = DiskBackup.CurrentLBA
        /\ DiskBackup.BackupLBA = DiskPrimary.CurrentLBA

\* C6: after a successful run the backup header on the device equals the
\* primary header on the device in signature, revision, header_size,
\* first_usable_lba, last_usable_lba, disk_guid, num_partitions,
\* partition_entry_size and partition_table_crc32.
C6_BackupMirrorsPrimary ==
    Succeeded =>
        \A f \in {"Signature", "Revision", "HeaderSize", "FirstUsableLBA",
                  "LastUsableLBA", "DiskGUID", "NumPartitions",
                  "PartitionEntrySize", "PartitionTableCRC"} :
            DiskBackup[f] = DiskPrimary[f]

\* C6 witness: a successful run that wrote a backup header which differs from
\* the primary header in its own location
C6_Witness ==
    /\ Succeeded
    /\ WritesOf("backup header") # {}
    /\ DiskBackup.CurrentLBA # DiskPrimary.CurrentLBA
    /\ DiskBackup.PartitionTableLBA # DiskPrimary.PartitionTableLBA
    /\ DiskBackup.LastUsableLBA # disk0.data[BlocksIn(SECTOR_SIZE)][9]

\* position of an item in the order of section 4.4
Rank(what) ==
    CASE what = "primary header" -> 1
      [] what = "primary table"  -> 2
      [] what = "backup table"   -> 3
      [] what = "backup header"  -> 4

WriteOrder ==
    IF prog = "v1"
    THEN <<"primary table", "primary header", "backup table", "backup header">>
    ELSE <<"primary header", "primary table", "backup header", "backup table">>

C8_AbortOnWriteFailure ==
    /\ Len(tried) - Len(wlog) \in {0, 1}
    /\ Len(tried) > Len(wlog) => (pc = "exit" /\ fatal # "" /\ ~report)
    /\ report =>
          /\ fatal = ""
          /\ Len(wlog) = 4
          /\ \A what \in {"primary header", "primary table", "backup table",
                          "backup header"} : WritesOf(what) # {}

\* C8 witness: the third write failed after two had completed
C8_Witness ==
    pc = "exit" /\ fatal # "" /\ Len(wlog) = 2 /\ Len(tried) = 3 /\ ~report

\* the header and the size that the run started from
Header0 == DecodeHeader(BlockAt(disk0, BlocksIn(SECTOR_SIZE)))

\* C9: when the device size is not a multiple of 512, or the signature is
\* not "EFI PART", or the primary table ends beyond the device, the run
\* writes nothing, leaves the device as it was and does not report success.
C9_ValidationBeforeWrites ==
    ( \/ disk0.size % SECTOR_SIZE # 0
      \/ Header0.Signature # GPT_SIGNATURE
      \/ Header0.PartitionTableLBA * SECTOR_SIZE
           + Header0.NumPartitions * Header0.PartitionEntrySize > disk0.size )
    => (tried = <<>> /\ disk = disk0 /\ ~report)

\* CRC-32 of the first header_size bytes of the header that lies at byte
\* offset off of the device, with bytes 16..20 zeroed
DiskHeaderCRC(off) ==
    LET hs == DecodeHeader(BlockAt(disk, BlocksIn(off))).HeaderSize
        bs == ReadBlocks(disk, off, Max(hs, BlockBytes) + BlockBytes - 1)
    IN  ChecksumIEEE(Prefix(ZeroCRCField(bs), hs))

\* C10: after a successful run the stored header_crc32 of the primary and of
\* the backup header on the device equals the CRC-32 of the first
\* header_size bytes of that header with bytes 16..20 zeroed.
C10_HeaderCRCOnDevice ==
    Succeeded =>
        /\ DiskPrimary.HeaderCRC32 = DiskHeaderCRC(SECTOR_SIZE)
        /\ DiskBackup.HeaderCRC32 = DiskHeaderCRC(DiskPrimary.BackupLBA * SECTOR_SIZE)

\* CRC-32 of the entry array that header h declares, as it lies on the
\* device: num_partitions * partition_entry_size bytes from partition_table_lba
DiskTableCRC(h) ==
    ChecksumIEEE(Flatten(ReadBlocks(disk, h.PartitionTableLBA * SECTOR_SIZE,
                                    h.NumPartitions * h.PartitionEntrySize)))

\* C11: after a successful run partition_table_crc32 of the primary and of
\* the backup header on the device equals the CRC-32 of the entry array on
\* the device that the header points at, taken over exactly num_partitions *
\* partition_entry_size bytes.
C11_TableCRCOnDevice ==
    Succeeded =>
        /\ DiskPrimary.PartitionTableCRC = DiskTableCRC(DiskPrimary)
        /\ DiskBackup.PartitionTableCRC = DiskTableCRC(DiskBackup)

\* the sector at which the tool starts to pack: v1 curStart :=
\* primary.FirstUsableLBA, v2 nextFreeSector := uint64(34)
RelocationBase == IF prog = "v1" THEN primary.FirstUsableLBA ELSE 34

\* the table as found is packed at the base: its non-empty entries, in slot
\* order, start at the base and follow each other without gaps
PackedAtBase ==
    LET ne == {i \in 0..(WalkCount - 1) : NonEmpty(OldEntry(i))}
    IN  \A i \in ne :
            LET before == {j \in ne : j < i}
            IN  /\ OldEntry(i).StartLBA <= OldEntry(i).EndLBA
                /\ OldEntry(i).StartLBA =
                      IF before = {} THEN RelocationBase
                      ELSE LET prev == CHOOSE j \in before : \A l \in before : l <= j
                           IN  OldEntry(prev).EndLBA + 1

\* C12: relocation is idempotent on a table that is already packed at the
\* base: every entry comes out of the loop with the start_lba and end_lba it
\* had on the device.
C12_IdempotentWhenPacked ==
    (Relocated /\ PackedAtBase) =>
        \A i \in 0..(WalkCount - 1) :
            /\ NewEntry(i).StartLBA = OldEntry(i).StartLBA
            /\ NewEntry(i).EndLBA = OldEntry(i).EndLBA

\* where the cursor stands when the walk reaches slot i, if exactly the
\* non-empty slots before i were relocated: the base, or one past the end
\* of the last non-empty slot before i
CursorAt(i) ==
    LET before == {j \in 0..(i - 1) : NonEmpty(OldEntry(j))}
    IN  IF before = {} THEN RelocationBase
        ELSE LET prev == CHOOSE j \in before : \A l \in before : l <= j
             IN  Wrap(NewEntry(prev).EndLBA + 1)

\* C13: relocation skips exactly the empty entries: a slot with an all-zero
\* type_guid, or with start_lba = 0 or end_lba = 0, keeps its start_lba and
\* end_lba and does not advance the cursor; every other slot is relocated to
\* the cursor.
C13_SkipsExactlyEmpty ==
    Relocated =>
        \A i \in 0..(WalkCount - 1) :
            IF NonEmpty(OldEntry(i))
            THEN NewEntry(i).StartLBA = CursorAt(i)
            ELSE /\ NewEntry(i).StartLBA = OldEntry(i).StartLBA
                 /\ NewEntry(i).EndLBA = OldEntry(i).EndLBA

\* byte offset of the primary entry array, and the byte offsets at which the
\* run wrote the backup entry array
PrimaryTableOff == Int64(MemPrimary.PartitionTableLBA) * SECTOR_SIZE
BackupTableOffs == {wlog[k].off : k \in WritesOf("backup table")}

\* slot i of the array at byte offset off of the device carries the bytes
\* that slot i had when the run started, but for start_lba and end_lba, and
\* all of them if that slot was empty
SlotKept(off, i) ==
    LET b0  == BlocksIn(PrimaryTableOff + i * WalkStride)
        b   == BlocksIn(off + i * WalkStride)
        old == BlockAt(disk0, b0)
        new == BlockAt(disk, b)
    IN  /\ \A g \in (1..NGroups) \ {7, 8} : new[g] = old[g]
        /\ \A k \in 1..(BlocksIn(WalkStride) - 1) :
               BlockAt(disk, b + k) = BlockAt(disk0, b0 + k)
        /\ ~NonEmpty(DecodeEntry(old)) => new = old

\* C14: relocation changes only start_lba and end_lba of non-empty entries:
\* after a successful run every slot of the primary and of the backup table
\* on the device has the type_guid, unique_guid, attributes and name it had
\* in the table read, the headers declare the same number and size of
\* slots, and every empty slot is byte-for-byte what it was.
C14_OnlyLBAsChange ==
    Succeeded =>
        /\ DiskPrimary.NumPartitions = Header0.NumPartitions
        /\ DiskPrimary.PartitionEntrySize = Header0.PartitionEntrySize
        /\ \A off \in {PrimaryTableOff} \cup BackupTableOffs :
               \A i \in 0..(WalkCount - 1) : SlotKept(off, i)

\* the LBA at which the run places the backup entry array: v1
\* backupHdrLBA - partSectors, v2 gptHeader.BackupLBA - 33
BackupTableLBA ==
    IF prog = "v1" THEN v1_backupTableLBA ELSE Wrap(gptHeader.BackupLBA - 33)

\* none of the uint64 subtractions of the run went below zero: v1
\* totalSectors - 1 and backupHdrLBA - partSectors - 1, v2
\* fileSize/512 - 1 and lastSector - 33
NoUnderflow ==
    IF prog = "v1"
    THEN /\ totalSectors >= 1
         /\ totalSectors - 1 >= partSectors(v1_tableBytes) + 1
    ELSE /\ disk0.size \div SECTOR_SIZE >= 1
         /\ disk0.size \div SECTOR_SIZE - 1 >= 33

\* C15: in a run that completed its first write the LBA arithmetic did not
\* wrap, and the header fields satisfy first_usable_lba <= last_usable_lba <
\* backup_table_lba < backup_lba < total_sectors.
C15_NoWrap ==
    wlog # <<>> =>
        /\ NoUnderflow
        /\ MemPrimary.FirstUsableLBA <= MemPrimary.LastUsableLBA
        /\ MemPrimary.LastUsableLBA < BackupTableLBA
        /\ BackupTableLBA < MemPrimary.BackupLBA
        /\ MemPrimary.BackupLBA < disk0.size \div SECTOR_SIZE

====
